---- MODULE Spec2Model ----
(***************************************************************************)
(* Model of aipes/neb/parallel.py: the parallel AI-NEB loop run_aineb and  *)
(* its helpers initialize_mep and validate_mep.  Every MPI process (rank)  *)
(* runs the same program; the model keeps one program counter and one set  *)
(* of local variables per rank, the files on disk, and the messages of the *)
(* collectives (comm.bcast, comm.gather) that are in flight.                *)
(***************************************************************************)
EXTENDS Naturals, Integers, Sequences, FiniteSets, TLC

\* ------------------------------------------------------------------ bounds
MaxProcs == 2      \* processes of the MPI world (comm.Get_size())
MaxIter == 2       \* convergence["max_iteration"]
MaxResid == 1      \* largest residual |Amp - reference| on one image

\* ------------------------------------------------------------------ values
\* A calculator attached to an image: none, the single-point calculator of
\* an input file, an Amp calculator (id = version of the trained model) or
\* a reference calculator (id = number of the gen_calc_ref() instance).
NoCalc == [kind |-> "none", id |-> 0]
SPCalc == [kind |-> "sp", id |-> 0]
AmpCalc(v) == [kind |-> "amp", id |-> v]
RefCalc(i) == [kind |-> "ref", id |-> i]

\* The geometry of an image.  node: position in the path or in the file;
\* model: version of the Amp model under which the geometry was relaxed.
Geo(k, n, m) == [kind |-> k, node |-> n, model |-> m]

\* An ASE Atoms object: geometry and attached calculator.
Atoms(g, c) == [geo |-> g, calc |-> c]
NoAtoms == Atoms(Geo("none", 0, 0), NoCalc)

\* A trained Amp model: its label, its version (count of trainings so far)
\* and the training set it was trained on.  NoModel: no model.
NoModel == [label |-> "None", version |-> 0, trainedOn |-> <<>>]

\* The input files.
InitialFile == Atoms(Geo("initial", 0, 0), SPCalc)
FinalFile == Atoms(Geo("final", 0, 0), SPCalc)
TrainFile == <<Atoms(Geo("train", 0, 0), SPCalc)>>

\* Keys of the accuracy dictionary, in insertion order (validate_mep).
Keys == <<"energy_rmse", "energy_maxresid", "force_rmse", "force_maxresid">>

VARIABLES
  size,             \* comm.Get_size()
  num_inter_images, \* argument of run_aineb
  convergence,      \* argument of run_aineb: thresholds and max_iteration
  pc,               \* position of each rank in run_aineb
  iteration,        \* per rank: number of loop bodies entered
  is_converged,     \* per rank
  label,            \* per rank
  calc_amp,         \* per rank: the Amp model held
  mep,              \* per rank
  converge_status,  \* per rank
  initial_image, final_image, train_set, ref_images, \* rank 0
  amp_files,        \* disk: label -> model stored in <label>.amp
  train_new,        \* disk: train_new.traj, a sequence of writes
  mep_traj,         \* disk: mep.traj, a sequence of writes
  bq,               \* per rank: broadcast messages sent by the root, not yet received
  gq,               \* per rank: the value sent to the root by gather, if any
  calls,            \* per rank: the collectives called so far
  ntrain,           \* trainings done (version of the newest model)
  nref,             \* gen_calc_ref() calls so far
  trace             \* per loop body of rank 0: what happened in it

vars == <<size, num_inter_images, convergence, pc, iteration,
          is_converged, label, calc_amp, mep, converge_status, initial_image,
          final_image, train_set, ref_images, amp_files, train_new,
          mep_traj, bq, gq, calls, ntrain, nref, trace>>

Ranks == 0..(size - 1)
\* The label of the calculators gen_calc_amp() instantiates; None.
AmpLabel == "amp"
NoLabel == "None"
Labels == {AmpLabel}

\* ------------------------------------------------------------------ helpers
RECURSIVE SumSeq(_)
SumSeq(s) == IF s = <<>> THEN 0 ELSE Head(s) + SumSeq(Tail(s))

MaxSeq(s) == IF s = <<>> THEN 0
             ELSE CHOOSE x \in {s[i] : i \in 1..Len(s)} :
                    \A j \in 1..Len(s) : s[j] <= x

\* Atoms.copy(): the geometry is copied, the calculator is not.
Copy(a) == Atoms(a.geo, NoCalc)

\* Atoms.set_calculator(calc)
SetCalculator(a, c) == Atoms(a.geo, c)

\* Python index j of a path (a TLA+ sequence counts from 1).
At(path, j) == path[j + 1]

\* The image of the path that rank r works on: mep[rank+1].
\* Faulty variant: mep[rank]
Owned_Rank(r) == r
Owned(r) == r + 1

\* Faulty variant: the final image is not appended.
initialize_mep_NoFinal(initial, final, n) ==
  <<initial>> \o [i \in 1..n |-> Copy(initial)]

\* initialize_mep(initial_image, final_image, num_inter_images)
initialize_mep(initial, final, n) ==
  <<initial>> \o [i \in 1..n |-> Copy(initial)] \o <<final>>

\* NEB(mep, parallel=True).interpolate(...) followed by OPT(neb).run(...) on
\* rank r: ASE relaxes the image of this rank with the calculator attached
\* to it.  The relaxed geometry is a function of the position in the path
\* and of the model used; endpoints keep their geometry.
RunNEB(path, r) ==
  [j \in DOMAIN path |->
     IF j = Owned(r) + 1
       THEN Atoms(Geo("relaxed", Owned(r), path[j].calc.id), path[j].calc)
       ELSE path[j]]

\* A metric value sqrt(sq / n), kept exact as the pair (sq, n).
Metric(sq, n) == [sq |-> sq, n |-> n]
Rmse(res) == Metric(SumSeq([i \in 1..Len(res) |-> res[i] * res[i]]), Len(res))
MaxResidual(res) == Metric(MaxSeq(res) * MaxSeq(res), 1)

\* value <= convergence[key] for a threshold thr >= 0
\* Faulty variant: value >= convergence[key]
Leq_Reversed(value, thr) == value.sq >= thr * thr * value.n
\* Faulty variant: value < convergence[key]
Leq_Strict(value, thr) == value.sq < thr * thr * value.n
Leq(value, thr) == value.sq <= thr * thr * value.n

\* validate_energy / validate_forces of common.benchmark: RMSE and maximum
\* residual of the differences eres, fres between Amp and reference.
validate_energy(eres) == <<Rmse(eres), MaxResidual(eres)>>
validate_forces(fres) == <<Rmse(fres), MaxResidual(fres)>>

\* Faulty variant: one reference calculator, made before the loop, is set
\* on every copy.
RefImages_Shared(path, first) ==
  [i \in 1..Len(path) |-> SetCalculator(Copy(path[i]), RefCalc(first + 1))]

\* validate_mep: the images labelled by the reference calculator.  Each copy
\* gets the calculator of its own gen_calc_ref() call; first is the number
\* of calls made before.
RefImages(path, first) ==
  [i \in 1..Len(path) |-> SetCalculator(Copy(path[i]), RefCalc(first + i))]

\* validate_mep: the accuracy dictionary.
Accuracy(eres, fres) ==
  [energy_rmse |-> validate_energy(eres)[1],
   energy_maxresid |-> validate_energy(eres)[2],
   force_rmse |-> validate_forces(fres)[1],
   force_maxresid |-> validate_forces(fres)[2]]

\* run_aineb: converge_status, one boolean per key of accuracy, in order.
ConvergeStatus(acc, conv) ==
  [i \in 1..Len(Keys) |-> Leq(acc[Keys[i]], conv[Keys[i]])]

\* run_aineb: converge_status == [True, True, True, True]
AllConverged(status) == status = <<TRUE, TRUE, TRUE, TRUE>>

\* The final path written to mep.traj.
MepFinal(initial, refs, final) == <<initial>> \o refs \o <<final>>

\* ------------------------------------------------------------------ Init
\* The convergence dictionary: each threshold is strict (0: only an exact
\* match passes) or one unit of residual.
ThresholdValues == {0, 1}
Thresholds == [energy_rmse : ThresholdValues, energy_maxresid : ThresholdValues,
               force_rmse : ThresholdValues, force_maxresid : ThresholdValues,
               max_iteration : 0..MaxIter]

Init ==
  /\ size \in 1..MaxProcs
  /\ num_inter_images \in 0..MaxProcs
  /\ convergence \in Thresholds
  /\ pc = [r \in Ranks |-> "start"]
  /\ iteration = [r \in Ranks |-> 0]
  /\ is_converged = [r \in Ranks |-> FALSE]
  /\ label = [r \in Ranks |-> NoLabel]
  /\ calc_amp = [r \in Ranks |-> NoModel]
  /\ mep = [r \in Ranks |-> <<>>]
  /\ converge_status = [r \in Ranks |-> <<>>]
  /\ initial_image = NoAtoms
  /\ final_image = NoAtoms
  /\ train_set = <<>>
  /\ ref_images = <<>>
  /\ amp_files = [l \in Labels \cup {NoLabel} |-> NoModel]
  /\ train_new = <<>>
  /\ mep_traj = <<>>
  /\ bq = [r \in Ranks |-> <<>>]
  /\ gq = [r \in Ranks |-> <<>>]
  /\ calls = [r \in Ranks |-> <<>>]
  /\ ntrain = 0
  /\ nref = 0
  /\ trace = <<>>

\* ------------------------------------------------------------------ collectives
\* Whether rank r calls the collective of the given kind when it reaches its
\* line: in run_aineb every collective stands outside the rank == 0 branches.
\* Faulty variant: the broadcast of converge_status stands inside the
\* rank == 0 branch.
Participates_StatusOnRoot(r, kind) == r = 0 \/ kind # "bcast_status"
\* Faulty variant: the broadcast of label stands inside the rank == 0 branch.
Participates_LabelOnRoot(r, kind) == r = 0 \/ kind # "bcast_label"
Participates(r, kind) == TRUE

\* comm.bcast(value, root=0) on rank r.  The root hands its value to every
\* other rank and goes on; another rank waits for the root's message.
BcastReady(r, kind) == ~Participates(r, kind) \/ r = 0 \/ bq[r] # <<>>
BcastValue(r, kind, value) ==
  IF r = 0 \/ ~Participates(r, kind) THEN value ELSE Head(bq[r]).val
Bcast(r, kind, value) ==
  /\ BcastReady(r, kind)
  /\ bq' = IF ~Participates(r, kind) THEN bq
           ELSE IF r = 0
             THEN [s \in Ranks |->
                     IF s = 0 THEN bq[s]
                     ELSE Append(bq[s], [kind |-> kind, val |-> value])]
             ELSE [bq EXCEPT ![r] = Tail(bq[r])]
  /\ calls' = IF Participates(r, kind)
                THEN [calls EXCEPT ![r] = Append(calls[r], kind)]
                ELSE calls

\* comm.gather(value, root=0) on rank r.  Another rank sends its value to
\* the root and goes on; the root waits for the values of all ranks and
\* gets them in rank order.
GatherReady(r, kind) ==
  ~Participates(r, kind) \/ r # 0 \/ \A s \in Ranks \ {0} : gq[s] # <<>>
Gathered(r, kind, value) ==
  IF r = 0 /\ Participates(r, kind)
    THEN [i \in 1..size |-> IF i = 1 THEN value ELSE gq[i - 1][1]]
    ELSE <<>>
Gather(r, kind, value) ==
  /\ GatherReady(r, kind)
  /\ gq' = IF ~Participates(r, kind) THEN gq
           ELSE IF r = 0 THEN [s \in Ranks |-> <<>>]
           ELSE [gq EXCEPT ![r] = Append(gq[r], value)]
  /\ calls' = IF Participates(r, kind)
                THEN [calls EXCEPT ![r] = Append(calls[r], kind)]
                ELSE calls

\* ------------------------------------------------------------------ run_aineb
args == <<size, num_inter_images, convergence>>

\* What rank 0 records of a loop body when it enters it.
NewBody == [train_before |-> train_set, model |-> NoModel, seed |-> <<>>,
            gathered |-> <<>>, refs |-> <<>>, validated |-> FALSE,
            passed |-> FALSE, zero |-> FALSE, exact |-> FALSE,
            error |-> "none"]
Cur == Len(trace)

\* for iteration in range(convergence["max_iteration"]): where rank r goes
\* when it reaches the head of the loop, and what it counts.
\* Faulty variant: the loop runs one body too many.
LoopEnters_OffByOne(r) == iteration[r] <= convergence.max_iteration
LoopEnters(r) == iteration[r] < convergence.max_iteration
LoopHead(r, body) ==
  /\ pc' = [pc EXCEPT ![r] = IF LoopEnters(r) THEN "train" ELSE "summary"]
  /\ iteration' = [iteration EXCEPT
                     ![r] = IF LoopEnters(r) THEN iteration[r] + 1 ELSE iteration[r]]
  /\ trace' = IF r = 0 /\ LoopEnters(r) THEN Append(trace, body) ELSE trace

\* assert size == num_inter_images
\* Faulty variant: assert size <= num_inter_images
AssertSize_AtMost == size <= num_inter_images
AssertSize == size = num_inter_images

\* comm = world.comm ... assert size == num_inter_images; if rank == 0: read
\* the initial and final images and the training set; is_converged = False;
\* first test of the loop
Start(r) ==
  /\ pc[r] = "start"
  /\ IF AssertSize
       THEN /\ IF r = 0
                 THEN /\ initial_image' = InitialFile
                      /\ final_image' = FinalFile
                      /\ train_set' = TrainFile
                 ELSE UNCHANGED <<initial_image, final_image, train_set>>
            /\ is_converged' = [is_converged EXCEPT ![r] = FALSE]
            /\ LoopHead(r, [NewBody EXCEPT !.train_before = TrainFile])
       ELSE /\ pc' = [pc EXCEPT ![r] = "assert_failed"]
            /\ UNCHANGED <<initial_image, final_image, train_set,
                           is_converged, iteration, trace>>
  /\ UNCHANGED <<args, label, calc_amp, mep, converge_status, ref_images,
                 amp_files, train_new, mep_traj, bq, gq, calls, ntrain, nref>>

\* The model the training of rank 0 produces.
Trained == [label |-> AmpLabel, version |-> ntrain + 1,
            trainedOn |-> train_set]

\* train(..., overwrite=True) stores the model in <label>.amp, over the file
\* of an earlier training.
\* Faulty variant: overwrite=False, an existing file is kept.
Store_KeepExisting(files, model) ==
  IF files[model.label] = NoModel
    THEN [files EXCEPT ![model.label] = model]
    ELSE files
Store(files, model) == [files EXCEPT ![model.label] = model]

\* if rank == 0: calc_amp = gen_calc_amp(); calc_amp.train(images=train_set,
\* overwrite=True); label = calc_amp.label   else: label = None
\* label = comm.bcast(label, root=0)
Train(r) ==
  /\ pc[r] = "train"
  /\ IF r = 0
       THEN /\ calc_amp' = [calc_amp EXCEPT ![r] = Trained]
            /\ amp_files' = Store(amp_files, Trained)
            /\ ntrain' = ntrain + 1
            /\ trace' = [trace EXCEPT ![Cur].model = Trained]
            /\ Bcast(r, "bcast_label", Trained.label)
            /\ label' = [label EXCEPT ![r] = BcastValue(r, "bcast_label", Trained.label)]
       ELSE /\ Bcast(r, "bcast_label", NoLabel)
            /\ label' = [label EXCEPT ![r] = BcastValue(r, "bcast_label", NoLabel)]
            /\ UNCHANGED <<calc_amp, amp_files, ntrain, trace>>
  /\ pc' = [pc EXCEPT ![r] = "load"]
  /\ UNCHANGED <<args, iteration, is_converged, mep, converge_status,
                 initial_image, final_image, train_set, ref_images, train_new,
                 mep_traj, gq, nref>>

\* The file Amp.load reads on rank r: label + ".amp"
\* Faulty variant: the label is not broadcast; a rank other than 0 has None.
LoadFrom_Local(r) == IF r = 0 THEN label[r] ELSE NoLabel
LoadFrom(r) == label[r]

\* calc_amp = Amp.load(label+".amp", cores=1, label=label, logging=False)
Load(r) ==
  /\ pc[r] = "load"
  /\ calc_amp' = [calc_amp EXCEPT ![r] = amp_files[LoadFrom(r)]]
  /\ pc' = [pc EXCEPT ![r] = "build"]
  /\ UNCHANGED <<args, iteration, is_converged, label, mep, converge_status,
                 initial_image, final_image, train_set, ref_images, amp_files,
                 train_new, mep_traj, bq, gq, calls, ntrain, nref, trace>>

\* Variant: the path is initialized in the first loop body only and the
\* later ones start from the path gathered before.
BuildMep_Reuse(r) ==
  IF r = 0
    THEN IF iteration[r] = 1
           THEN initialize_mep(initial_image, final_image, num_inter_images)
           ELSE <<initial_image>> \o mep[r] \o <<final_image>>
    ELSE <<>>

\* The path rank r has before the broadcast:
\* if rank == 0: mep = initialize_mep(...)   else: mep = None
BuildMep(r) ==
  IF r = 0 THEN initialize_mep(initial_image, final_image, num_inter_images)
  ELSE <<>>

\* if rank == 0: mep = initialize_mep(...) else: mep = None
\* mep = comm.bcast(mep, root=0)
Build(r) ==
  /\ pc[r] = "build"
  /\ Bcast(r, "bcast_mep", BuildMep(r))
  /\ mep' = [mep EXCEPT ![r] = BcastValue(r, "bcast_mep", BuildMep(r))]
  /\ trace' = IF r = 0 THEN [trace EXCEPT ![Cur].seed = BuildMep(r)] ELSE trace
  /\ pc' = [pc EXCEPT ![r] = "optimize"]
  /\ UNCHANGED <<args, iteration, is_converged, label, calc_amp,
                 converge_status, initial_image, final_image, train_set,
                 ref_images, amp_files, train_new, mep_traj, gq, ntrain, nref>>

\* mep[rank+1].set_calculator(calc_amp)
InstallCalc(path, r, model) ==
  [path EXCEPT ![Owned(r) + 1] =
     SetCalculator(At(path, Owned(r)), AmpCalc(model.version))]

\* mep[rank+1].set_calculator(calc_amp); neb_runner = NEB(mep, ...,
\* parallel=True); neb_runner.interpolate(...); opt_runner = OPT(neb_runner);
\* opt_runner.run(...)
Optimize(r) ==
  /\ pc[r] = "optimize"
  /\ mep' = [mep EXCEPT ![r] = RunNEB(InstallCalc(mep[r], r, calc_amp[r]), r)]
  /\ pc' = [pc EXCEPT ![r] = "gather"]
  /\ UNCHANGED <<args, iteration, is_converged, label, calc_amp,
                 converge_status, initial_image, final_image, train_set,
                 ref_images, amp_files, train_new, mep_traj, bq, gq, calls,
                 ntrain, nref, trace>>

\* The value rank r hands to gather: mep[rank+1].copy()
\* Faulty variant: mep[1].copy()
GatherValue_First(r) == Copy(At(mep[r], 1))
GatherValue(r) == Copy(At(mep[r], Owned(r)))

\* mep = comm.gather(mep[rank+1].copy(), root=0)
GatherMep(r) ==
  /\ pc[r] = "gather"
  /\ Gather(r, "gather", GatherValue(r))
  /\ mep' = [mep EXCEPT ![r] = Gathered(r, "gather", GatherValue(r))]
  /\ trace' = IF r = 0
                THEN [trace EXCEPT ![Cur].gathered = Gathered(r, "gather", GatherValue(r))]
                ELSE trace
  /\ pc' = [pc EXCEPT ![r] = "validate"]
  /\ UNCHANGED <<args, iteration, is_converged, label, calc_amp,
                 converge_status, initial_image, final_image, train_set,
                 ref_images, amp_files, train_new, mep_traj, bq, ntrain, nref>>

\* The residuals between the Amp calculator and the reference calculator on
\* the images of a path: any values up to MaxResid.
Residuals(path) == [1..Len(path) -> 0..MaxResid]

\* The accuracy reports validate_mep may return for a path.
AccuracyReports(path) ==
  {Accuracy(eres, fres) : eres \in Residuals(path), fres \in Residuals(path)}

\* The accuracy report for a path on which the Amp calculator and the
\* reference calculator agree exactly (every residual is 0).
ExactReport(path) ==
  Accuracy([i \in 1..Len(path) |-> 0], [i \in 1..Len(path) |-> 0])

\* Every metric of the accuracy report is at or below its threshold.
Passes(acc) ==
  \A k \in DOMAIN acc : acc[k].sq <= convergence[k] * convergence[k] * acc[k].n

\* Every metric of the accuracy report is 0.
Zero(acc) == \A k \in DOMAIN acc : acc[k].sq = 0

\* if rank == 0: accuracy, ref_images = validate_mep(mep, calc_amp,
\* gen_calc_ref); converge_status = [value <= convergence[key] ...]
\* else: converge_status = None
\* converge_status = comm.bcast(converge_status, root=0)
Validate(r) ==
  /\ pc[r] = "validate"
  /\ IF r = 0
       THEN \E accuracy \in AccuracyReports(mep[r]) :
              /\ ref_images' = RefImages(mep[r], nref)
              /\ nref' = nref + Len(mep[r])
              /\ trace' = [trace EXCEPT
                   ![Cur].validated = TRUE,
                   ![Cur].passed = Passes(accuracy),
                   ![Cur].zero = Zero(accuracy),
                   ![Cur].exact = (accuracy = ExactReport(mep[r])),
                   ![Cur].refs = RefImages(mep[r], nref)]
              /\ Bcast(r, "bcast_status", ConvergeStatus(accuracy, convergence))
              /\ converge_status' =
                   [converge_status EXCEPT
                      ![r] = ConvergeStatus(accuracy, convergence)]
       ELSE /\ Bcast(r, "bcast_status", <<>>)
            /\ converge_status' =
                 [converge_status EXCEPT ![r] = BcastValue(r, "bcast_status", <<>>)]
            /\ UNCHANGED <<ref_images, nref, trace>>
  /\ pc' = [pc EXCEPT ![r] = "decide"]
  /\ UNCHANGED <<args, iteration, is_converged, label, calc_amp, mep,
                 initial_image, final_image, train_set, amp_files, train_new,
                 mep_traj, gq, ntrain>>

\* train_set.extend(ref_images)
\* Faulty variant: train_set = ref_images
Extend_Replace(set, refs) == refs
Extend(set, refs) == set \o refs

\* Whether rank r extends and writes the training set after a loop body
\* with this converge_status: the else branch, on rank 0.
\* Faulty variant: the last iteration of the loop does not extend.
Augments_NotLast(r, status) ==
  ~AllConverged(status) /\ r = 0 /\ iteration[r] < convergence.max_iteration
\* Faulty variant: the rank == 0 test around the extension is missing.
Augments_AnyRank(r, status) == ~AllConverged(status)
\* Variant: the training set is extended before the convergence test.
Augments_Always(r, status) == r = 0
Augments(r, status) == ~AllConverged(status) /\ r = 0

\* if converge_status == [True, True, True, True]: is_converged = True; break
\* else: if rank == 0: train_set.extend(ref_images);
\*                     write("train_new.traj", train_set)
\* and the next test of the loop
Decide(r) ==
  /\ pc[r] = "decide"
  /\ IF Augments(r, converge_status[r])
       THEN /\ train_set' = Extend(train_set, ref_images)
            /\ train_new' = Append(train_new, Extend(train_set, ref_images))
       ELSE UNCHANGED <<train_set, train_new>>
  /\ IF AllConverged(converge_status[r])
       THEN /\ is_converged' = [is_converged EXCEPT ![r] = TRUE]
            /\ pc' = [pc EXCEPT ![r] = "summary"]
            /\ UNCHANGED <<iteration, trace>>
       ELSE /\ LoopHead(r, [NewBody EXCEPT !.train_before = train_set'])
            /\ UNCHANGED is_converged
  /\ UNCHANGED <<args, label, calc_amp, mep, converge_status, initial_image,
                 final_image, ref_images, amp_files, mep_traj, bq, gq, calls,
                 ntrain, nref>>

\* Whether rank r writes mep.traj in the summary.
\* Faulty variant: the rank == 0 test is missing.
WritesMep_AnyRank(r) == is_converged[r]
WritesMep(r) == is_converged[r] /\ r = 0

\* if is_converged: if rank == 0: write("mep.traj", [initial_image] +
\* ref_images + [final_image])
Summary(r) ==
  /\ pc[r] = "summary"
  /\ mep_traj' = IF WritesMep(r)
                   THEN Append(mep_traj,
                               MepFinal(initial_image, ref_images, final_image))
                   ELSE mep_traj
  /\ pc' = [pc EXCEPT ![r] = "done"]
  /\ UNCHANGED <<args, iteration, is_converged, label, calc_amp, mep,
                 converge_status, initial_image, final_image, train_set,
                 ref_images, amp_files, train_new, bq, gq, calls, ntrain,
                 nref, trace>>

Step(r) ==
  \/ Start(r) \/ Train(r) \/ Load(r) \/ Build(r) \/ Optimize(r)
  \/ GatherMep(r) \/ Validate(r) \/ Decide(r) \/ Summary(r)

Next == \E r \in Ranks : Step(r)

Spec == Init /\ [][Next]_vars

\* The processes are scheduled: as long as some process can take a step,
\* some process eventually takes one.
FairSpec == Spec /\ WF_vars(Next)

\* ------------------------------------------------------------------ failures
\* Where rank 0 is after an exception of a collaborator: run_aineb has no
\* try/except, so the exception leaves run_aineb and the process ends.
\* Faulty variant: the exception of the reference calculator is caught and
\* the iteration goes on to its decision.
AfterEvaluatorError_Caught == "decide"
AfterEvaluatorError == "evaluator_failed"
AfterTrainError == "train_failed"

\* calc_amp.train(images=train_set, overwrite=True) raises on rank 0: the
\* process ends before it calls the broadcast of label.
TrainFails(r) ==
  /\ r = 0 /\ pc[r] = "train"
  /\ pc' = [pc EXCEPT ![r] = AfterTrainError]
  /\ trace' = [trace EXCEPT ![Cur].error = "training"]
  /\ UNCHANGED <<args, iteration, is_converged, label, calc_amp, mep,
                 converge_status, initial_image, final_image, train_set,
                 ref_images, amp_files, train_new, mep_traj, bq, gq, calls,
                 ntrain, nref>>

\* validate_mep on rank 0: get_forces / get_potential_energy of the
\* reference calculator raises on the i-th image.  gen_calc_ref() has been
\* called i times; the local list ref_images of validate_mep is lost, and
\* the process ends before it calls the broadcast of converge_status.
EvaluatorFails(r) ==
  /\ r = 0 /\ pc[r] = "validate"
  /\ \E i \in 1..Len(mep[r]) : nref' = nref + i
  /\ pc' = [pc EXCEPT ![r] = AfterEvaluatorError]
  /\ trace' = [trace EXCEPT ![Cur].error = "evaluator"]
  /\ UNCHANGED <<args, iteration, is_converged, label, calc_amp, mep,
                 converge_status, initial_image, final_image, train_set,
                 ref_images, amp_files, train_new, mep_traj, bq, gq, calls,
                 ntrain>>

NextF == \E r \in Ranks : Step(r) \/ TrainFails(r) \/ EvaluatorFails(r)

\* run_aineb with collaborators that may raise.
FailSpec == Init /\ [][NextF]_vars

\* ------------------------------------------------------------------ claims
Stopped(r) == pc[r] \in {"done", "assert_failed"}
AllDone == \A r \in Ranks : pc[r] = "done"
MaxIteration == convergence.max_iteration

\* The loop bodies rank r has finished (its last one is finished once it
\* has left "decide").
Finished(r) == pc[r] \in {"summary", "done"}

\* C1 as stated: the loop stops after fewer than max_iteration iterations
\* if and only if some iteration had all four metrics at or below their
\* thresholds.
C1_Original ==
  \A r \in Ranks :
    Finished(r) =>
      /\ iteration[r] <= MaxIteration
      /\ (iteration[r] < MaxIteration)
           <=> (\E k \in 1..iteration[r] : trace[k].passed)

C1_Safe ==
  \A r \in Ranks :
    /\ iteration[r] <= MaxIteration
    /\ Finished(r) =>
         /\ is_converged[r] <=> (iteration[r] >= 1 /\ trace[iteration[r]].passed)
         /\ \A k \in 1..(iteration[r] - 1) : ~trace[k].passed
         /\ iteration[r] < MaxIteration => is_converged[r]
         /\ ~is_converged[r] => iteration[r] = MaxIteration

\* C1 (amended): on every process the loop runs at most max_iteration
\* iterations and the process stops; it leaves the loop with is_converged
\* exactly when the last iteration it ran had all four metrics at or below
\* their thresholds (no earlier iteration had), it stops after fewer than
\* max_iteration iterations only if it converged, and a run that converges
\* in iteration max_iteration stops after exactly max_iteration iterations.
C1_Terminates == [](C1_Safe) /\ <>(\A r \in Ranks : Stopped(r))

C1_Witness ==
  /\ size >= 2 /\ AllDone
  /\ iteration[0] = MaxIteration /\ MaxIteration >= 2 /\ is_converged[0]

\* The collectives of one loop body, in the order of the code.
Body == <<"bcast_label", "bcast_mep", "gather", "bcast_status">>
InOrder(log) ==
  \A j \in 1..Len(log) : log[j] = Body[((j - 1) % Len(Body)) + 1]
IsBcast(kind) == kind # "gather"
Kinds(queue) == [j \in 1..Len(queue) |-> queue[j].kind]
Ahead(r) ==
  IF Len(calls[0]) > Len(calls[r])
    THEN SubSeq(calls[0], Len(calls[r]) + 1, Len(calls[0]))
    ELSE <<>>

\* C2: every process calls the same collectives in the same order (bcast
\* label, bcast mep, gather, bcast status in every iteration), a message a
\* process receives is the one of the collective it is calling, processes
\* that finish have made the same calls, and as long as some process has
\* not stopped some process can take a step (no deadlock).
C2_SameCollectives ==
  /\ \A r \in Ranks : InOrder(calls[r])
  /\ \A r \in Ranks \ {0} :
       /\ Kinds(bq[r]) = SelectSeq(Ahead(r), IsBcast)
       /\ Len(calls[r]) <= Len(calls[0]) + 1
  /\ (\A r \in Ranks : Stopped(r)) \/ ENABLED Next
  /\ AllDone => /\ \A r \in Ranks : calls[r] = calls[0] /\ bq[r] = <<>> /\ gq[r] = <<>>
                /\ Len(calls[0]) = Len(Body) * iteration[0]

C2_Witness ==
  /\ size >= 2 /\ AllDone /\ Len(calls[1]) = 2 * Len(Body)

\* C3: the status the coordinator broadcasts is a vector of four booleans,
\* one per metric; a process sets is_converged and leaves the loop in an
\* iteration exactly when all four metrics of that iteration are at or
\* below their thresholds; at the end all processes agree on is_converged
\* and on the number of iterations.
C3_SameDecision ==
  /\ \A r \in Ranks :
       /\ \A j \in 1..Len(bq[r]) :
            bq[r][j].kind = "bcast_status" => bq[r][j].val \in [1..4 -> BOOLEAN]
       /\ pc[r] = "decide" =>
            /\ converge_status[r] \in [1..4 -> BOOLEAN]
            /\ AllConverged(converge_status[r]) <=> trace[iteration[r]].passed
            /\ ~is_converged[r]
       /\ Finished(r) /\ iteration[r] >= 1 =>
            (is_converged[r] <=> trace[iteration[r]].passed)
       /\ is_converged[r] => Finished(r)
  /\ AllDone => \A r \in Ranks : /\ is_converged[r] = is_converged[0]
                                 /\ iteration[r] = iteration[0]

C3_Witness ==
  /\ size >= 2 /\ AllDone /\ is_converged[1] /\ iteration[1] = 2

\* C4: mep.traj is written at most once and only by the coordinator; once
\* the coordinator is done it has been written exactly once if the run
\* converged and not at all if the iterations were exhausted.
C4_FinalPathIffConverged ==
  /\ Len(mep_traj) <= 1
  /\ mep_traj # <<>> => pc[0] = "done" /\ is_converged[0]
  /\ pc[0] = "done" => (Len(mep_traj) = 1 <=> is_converged[0])
  /\ pc[0] = "done" /\ ~is_converged[0] =>
       /\ iteration[0] = MaxIteration
       /\ mep_traj = <<>>

C4_Witness ==
  /\ size >= 2 /\ AllDone /\ is_converged[0] /\ Len(mep_traj) = 1

\* C5: in a step that ends an iteration that did not converge, the
\* training set grows by exactly num_inter_images images, the images
\* labelled by the reference calculator in that iteration, one per interior
\* position, appended at the end; and the snapshot written to
\* train_new.traj in that step is the augmented training set.
C5_Growth ==
  [][(pc[0] = "decide" /\ pc'[0] # "decide" /\ ~trace[Cur].passed) =>
       /\ Len(train_set') = Len(train_set) + num_inter_images
       /\ SubSeq(train_set', 1, Len(train_set)) = train_set
       /\ SubSeq(train_set', Len(train_set) + 1, Len(train_set')) = trace[Cur].refs
       /\ \A i \in 1..num_inter_images :
            /\ trace[Cur].refs[i].calc.kind = "ref"
            /\ trace[Cur].refs[i].geo = trace[Cur].gathered[i].geo
            /\ trace[Cur].refs[i].geo.node = i
       /\ Len(train_new') = Len(train_new) + 1
       /\ train_new'[Len(train_new')] = train_set']_vars

C5_Witness ==
  /\ size >= 2 /\ Len(train_new) = 2
  /\ Len(train_set) = Len(TrainFile) + 2 * num_inter_images

\* The path initialize_mep gives in a run: the two input images and
\* num_inter_images copies of the initial image without calculator.
FreshPath ==
  <<InitialFile>>
    \o [i \in 1..num_inter_images |-> Atoms(Geo("initial", 0, 0), NoCalc)]
    \o <<FinalFile>>
Count(log, kind) == Len(SelectSeq(log, LAMBDA k : k = kind))
BeforeBcastMep(r) == pc[r] \in {"train", "load", "build"}

\* C6 as stated: from the second iteration on, the path given to the
\* optimizer is the previous iteration's optimized path (the endpoints
\* around the images gathered in the previous iteration).
C6_Original ==
  \A k \in 2..Len(trace) :
    trace[k].seed # <<>> =>
      trace[k].seed = <<InitialFile>> \o trace[k - 1].gathered \o <<FinalFile>>

\* C6 (amended): the seed path is built by initialize_mep from the endpoints
\* and broadcast in every iteration; in every iteration, the first and the
\* later ones, the path every process gives to the optimizer is the freshly
\* initialized one (the endpoints around num_inter_images copies of the
\* initial image), never the previous iteration's optimized path.
C6_FreshSeedEveryIteration ==
  /\ \A k \in 1..Len(trace) : trace[k].seed # <<>> => trace[k].seed = FreshPath
  /\ \A r \in Ranks :
       /\ pc[r] = "optimize" => mep[r] = FreshPath
       /\ Count(calls[r], "bcast_mep") =
            iteration[r] - (IF BeforeBcastMep(r) THEN 1 ELSE 0)

C6_Witness ==
  /\ size >= 2 /\ pc[1] = "optimize" /\ iteration[1] = 2
  /\ trace[1].gathered # <<>> /\ mep[1] # <<InitialFile>> \o trace[1].gathered \o <<FinalFile>>

Converged(r) == IF is_converged[r] THEN 1 ELSE 0
Range(seq) == {seq[i] : i \in 1..Len(seq)}

\* C7 as stated: the images labelled in an iteration are appended to the
\* training set in every iteration, the converging one included.
C7_Original ==
  Finished(0) =>
    Len(train_set) = Len(TrainFile) + num_inter_images * iteration[0]

\* C7 (amended): the images labelled in an iteration are appended to the
\* training set (and the set is written) in every iteration that does not
\* converge; in the converging iteration the loop is left before the
\* append, so none of its labelled images enters the training set.
C7_AppendUnlessConverged ==
  Finished(0) =>
    /\ Len(train_set) =
         Len(TrainFile) + num_inter_images * (iteration[0] - Converged(0))
    /\ Len(train_new) = iteration[0] - Converged(0)
    /\ \A k \in 1..iteration[0] :
         \A i \in 1..Len(trace[k].refs) :
           trace[k].refs[i] \in Range(train_set) <=> ~trace[k].passed

C7_Witness ==
  /\ size >= 2 /\ Finished(0) /\ is_converged[0] /\ iteration[0] = 2
  /\ Len(train_set) = Len(TrainFile) + num_inter_images

\* C8: initialize_mep gives, for every n >= 0, a path of length n + 2 with
\* the initial image at index 0 and the final image at index n + 1; in
\* every iteration the path of every process keeps this shape and these
\* endpoints, the images read before the loop stay as read, and a final
\* path that is written is the initial image, num_inter_images labelled
\* interior images and the final image.
C8_PathShape ==
  /\ \A n \in 0..(MaxProcs + 1) :
       /\ Len(initialize_mep(InitialFile, FinalFile, n)) = n + 2
       /\ At(initialize_mep(InitialFile, FinalFile, n), 0) = InitialFile
       /\ At(initialize_mep(InitialFile, FinalFile, n), n + 1) = FinalFile
  /\ \A r \in Ranks :
       pc[r] \in {"optimize", "gather"} =>
         /\ Len(mep[r]) = num_inter_images + 2
         /\ At(mep[r], 0) = InitialFile
         /\ At(mep[r], num_inter_images + 1) = FinalFile
  /\ pc[0] \notin {"start", "assert_failed"} =>
       initial_image = InitialFile /\ final_image = FinalFile
  /\ \A w \in 1..Len(mep_traj) :
       /\ Len(mep_traj[w]) = num_inter_images + 2
       /\ At(mep_traj[w], 0) = InitialFile
       /\ At(mep_traj[w], num_inter_images + 1) = FinalFile
       /\ \A j \in 1..num_inter_images :
            /\ At(mep_traj[w], j).calc.kind = "ref"
            /\ At(mep_traj[w], j).geo.kind = "relaxed"

C8_Witness ==
  /\ size >= 2 /\ AllDone /\ iteration[0] = 2
  /\ Len(mep_traj) = 1 /\ Len(mep_traj[1]) = num_inter_images + 2

HasAmp(a) == a.calc.kind = "amp"

\* C10: in every iteration, from its load up to the end of the validation,
\* every process holds the model that the coordinator trained in this
\* iteration on the training set of this iteration, read from the file
\* named by the broadcast label; and no value handed to a broadcast or a
\* gather carries the Amp calculator.
C10_SameModel ==
  /\ \A r \in Ranks :
       /\ pc[r] \in {"build", "optimize", "gather", "validate"} =>
            /\ label[r] = AmpLabel
            /\ calc_amp[r] = trace[iteration[r]].model
            /\ calc_amp[r].version = iteration[r]
            /\ calc_amp[r].trainedOn = trace[iteration[r]].train_before
       /\ \A j \in 1..Len(bq[r]) :
            /\ bq[r][j].kind = "bcast_label" => bq[r][j].val \in Labels
            /\ bq[r][j].kind = "bcast_mep" =>
                 \A i \in 1..Len(bq[r][j].val) : ~HasAmp(bq[r][j].val[i])
       /\ \A j \in 1..Len(gq[r]) : ~HasAmp(gq[r][j])
  /\ \A k \in 1..Len(trace) :
       \A i \in 1..Len(trace[k].gathered) : ~HasAmp(trace[k].gathered[i])

C10_Witness ==
  /\ size >= 2 /\ pc[0] = "load" /\ iteration[0] = 2
  /\ amp_files[AmpLabel].version = 2
  /\ pc[1] = "validate" /\ iteration[1] = 1 /\ calc_amp[1].version = 1

\* The position of a process at which it calls its next collective without
\* any work of its own before the call.
AtCollective(r) ==
  IF r = 0 THEN pc[r] = "gather"
  ELSE pc[r] \in {"train", "build", "gather", "validate"}

\* Process r has entered its j-th collective call.
Entered(r, j) ==
  \/ Len(calls[r]) >= j
  \/ Len(calls[r]) = j - 1 /\ AtCollective(r)

\* Process r has returned from its j-th collective call.
Returned(r, j) == Len(calls[r]) >= j

\* Process r is at work in a loop body.
InBody(r) ==
  pc[r] \in {"train", "load", "build", "optimize", "gather", "validate", "decide"}

\* Process r has called the gather of iteration k.
CalledGather(r, k) == Returned(r, Len(Body) * (k - 1) + 3)

NothingDone ==
  /\ initial_image = NoAtoms /\ final_image = NoAtoms /\ train_set = <<>>
  /\ ntrain = 0 /\ nref = 0
  /\ \A l \in DOMAIN amp_files : amp_files[l] = NoModel
  /\ \A r \in Ranks :
       /\ calls[r] = <<>> /\ bq[r] = <<>> /\ gq[r] = <<>>
       /\ iteration[r] = 0 /\ calc_amp[r] = NoModel /\ mep[r] = <<>>
  /\ trace = <<>> /\ train_new = <<>> /\ mep_traj = <<>>

\* C12: if the number of processes differs from num_inter_images, every
\* process fails at the assertion, its first step, and nothing of the run
\* happens: no input is read, no model trained, no collective called, no
\* iteration run; and a process fails there only on such a mismatch.
C12_MismatchFailsFirst ==
  /\ size # num_inter_images =>
       /\ NothingDone
       /\ \A r \in Ranks :
            /\ pc[r] \in {"start", "assert_failed"}
            /\ pc[r] = "start" => ENABLED Start(r)
  /\ \A r \in Ranks : pc[r] = "assert_failed" => size # num_inter_images

C12_Witness ==
  /\ size >= 2 /\ size # num_inter_images
  /\ \A r \in Ranks : pc[r] = "assert_failed"

\* Process r has ended: by returning, or by an exception.
Halted(r) ==
  Stopped(r) \/ pc[r] \in {"train_failed", "evaluator_failed"}

\* The loop body in which the reference calculator raised, if any.
EvaluatorRaised(k) == k \in 1..Len(trace) /\ trace[k].error = "evaluator"

\* C13: if the reference calculator raises on an image during the
\* validation of an iteration, the coordinator ends in that validation: the
\* iteration has no accuracy report and no converge_status is broadcast,
\* the training set stays as it was when the iteration began and is not
\* written for this iteration, no later iteration begins, and no final
\* path is written.
C13_EvaluatorFailure ==
  \A k \in 1..Len(trace) :
    EvaluatorRaised(k) =>
      /\ pc[0] = "evaluator_failed" /\ iteration[0] = k /\ k = Len(trace)
      /\ ~trace[k].validated /\ trace[k].refs = <<>>
      /\ Len(calls[0]) = Len(Body) * k - 1
      /\ \A r \in Ranks \ {0} :
           Count(Kinds(bq[r]), "bcast_status") + Count(calls[r], "bcast_status") = k - 1
      /\ train_set = trace[k].train_before
      /\ Len(train_new) = k - 1
      /\ \A w \in 1..Len(train_new) : \A i \in 1..Len(train_new[w]) :
           train_new[w][i].calc.kind = "ref" => train_new[w][i].geo.model < k
      /\ mep_traj = <<>>

C13_Witness ==
  /\ size >= 2 /\ EvaluatorRaised(2) /\ pc[0] = "evaluator_failed"
  /\ nref = size + 2 /\ pc[1] = "validate"

\* The training of the current loop body raised on the coordinator.
TrainingRaised == Len(trace) >= 1 /\ trace[Cur].error = "training"

\* Process r waits in a collective for a message of the coordinator.
Waiting(r) ==
  r # 0 /\ pc[r] \in {"train", "build", "validate"} /\ bq[r] = <<>>

\* After a failure of the training no process is in, or past, the
\* optimization of that iteration, and nothing more is written.
NoWorkAfterTrainFailure ==
  TrainingRaised =>
    /\ pc[0] = "train_failed"
    /\ \A r \in Ranks :
         iteration[r] = Cur => pc[r] \in {"train", "train_failed"}
    /\ Len(train_new) = Cur - 1 /\ mep_traj = <<>>

\* C14 as stated: a failure of the training on the coordinator aborts the
\* whole run: no process enters the optimization of that or a later
\* iteration, nothing more is written, and every process stops: none is
\* left waiting in a collective when no process can take a step any more.
C14_Original ==
  /\ NoWorkAfterTrainFailure
  /\ TrainingRaised /\ ~ENABLED NextF => \A r \in Ranks : Halted(r)

\* What only the coordinator may change: the training set, the trained
\* models and their files, the labelled images and the output files.
coordinated == <<train_set, ntrain, amp_files, nref, ref_images, train_new,
                 mep_traj, initial_image, final_image, trace>>

\* The step is one of process r.
StepOf(r) == pc'[r] # pc[r]

\* The step leaves the local variables of every process but r alone.
OthersKept(r) ==
  \A s \in Ranks \ {r} :
    /\ label'[s] = label[s] /\ calc_amp'[s] = calc_amp[s]
    /\ mep'[s] = mep[s] /\ converge_status'[s] = converge_status[s]
    /\ is_converged'[s] = is_converged[s] /\ iteration'[s] = iteration[s]

ZeroThresholds == \A i \in 1..Len(Keys) : convergence[Keys[i]] = 0

\* Every validation so far found a nonzero residual.
AlwaysInError == \A k \in 1..Len(trace) : trace[k].validated => ~trace[k].zero

\* C16: with every threshold exactly 0 and a nonzero error of the Amp model
\* in every iteration, the coordinator leaves the loop not converged after
\* exactly max_iteration iterations; every iteration, the last included,
\* appended num_inter_images images and wrote the training set, so the
\* training set ends with its initial length plus num_inter_images *
\* max_iteration; and no final path is written.
C16_ExhaustsAndGrows ==
  ZeroThresholds /\ AlwaysInError =>
    /\ \A r \in Ranks : ~is_converged[r]
    /\ \A w \in 1..Len(train_new) :
         Len(train_new[w]) = Len(TrainFile) + num_inter_images * w
    /\ Finished(0) =>
         /\ iteration[0] = MaxIteration
         /\ Len(train_new) = MaxIteration
         /\ Len(train_set) = Len(TrainFile) + num_inter_images * MaxIteration
         /\ mep_traj = <<>>

C16_Witness ==
  /\ size >= 2 /\ ZeroThresholds /\ AlwaysInError /\ AllDone
  /\ MaxIteration = 2 /\ Len(train_set) = Len(TrainFile) + 2 * num_inter_images

\* The first validation found the Amp model to match the reference
\* calculator exactly on every image.
ExactAtFirst == Len(trace) >= 1 /\ trace[1].validated /\ trace[1].exact

\* C17: if the Amp model matches the reference calculator exactly on every
\* image (every residual is 0), max_iteration >= 1 and the thresholds are
\* not negative, the first iteration has all four metrics equal to 0 and
\* passes, no second iteration begins, every process leaves the loop
\* converged after one iteration, and the run has trained once and has
\* called the reference calculator num_inter_images times; the training set
\* is the one read and one final path is written.
C17_ExactConvergesAtOnce ==
  MaxIteration >= 1 /\ ExactAtFirst =>
    /\ trace[1].zero /\ trace[1].passed
    /\ Len(trace) = 1 /\ ntrain = 1 /\ nref = num_inter_images
    /\ Len(trace[1].refs) = num_inter_images
    /\ train_set = TrainFile /\ train_new = <<>>
    /\ \A r \in Ranks :
         /\ iteration[r] = 1
         /\ Finished(r) => is_converged[r]
    /\ pc[0] = "done" => Len(mep_traj) = 1

C17_Witness ==
  /\ size >= 2 /\ MaxIteration = 2 /\ ExactAtFirst /\ AllDone
  /\ convergence.energy_rmse = 0 /\ convergence.force_maxresid = 1

\* The labelled images validate_mep has returned so far, one place per
\* image: <<k, i>> is the i-th image of loop body k.
Labelled == {p \in (1..Len(trace)) \X (1..MaxProcs) :
               p[2] <= Len(trace[p[1]].refs)}
RefOf(p) == trace[p[1]].refs[p[2]]

C18_Returned ==
  /\ \A k \in 1..Len(trace) :
       trace[k].validated =>
         /\ Len(trace[k].refs) = Len(trace[k].gathered)
         /\ \A i \in 1..Len(trace[k].refs) :
              /\ trace[k].refs[i].geo = trace[k].gathered[i].geo
              /\ trace[k].refs[i].calc.kind = "ref"
              /\ trace[k].gathered[i].calc = NoCalc
  /\ \A p \in Labelled : \A q \in Labelled :
       RefOf(p).calc = RefOf(q).calc => p = q
  /\ \A p \in Labelled : RefOf(p).calc.id \in 1..nref
  /\ nref = Cardinality(Labelled)

C18_Call ==
  pc[0] = "validate" /\ pc'[0] = "decide" =>
    /\ nref' = nref + Len(mep[0])
    /\ mep'[0] = mep[0]
    /\ ref_images' = trace'[Cur].refs
    /\ Len(ref_images') = Len(mep[0])

\* C18: validate_mep calls gen_calc_ref() once per image: for m images the
\* count of calls grows by exactly m, no reference calculator is attached
\* to two images (of one call or of two), every returned image has the
\* geometry of the input image at the same place and carries a reference
\* calculator, the input images are left as they were (without
\* calculator), and the returned list has length m.
C18_OneEvaluatorPerNode == [](C18_Returned) /\ [][C18_Call]_vars

C18_Witness ==
  /\ size >= 2 /\ Len(trace) = 2 /\ trace[2].validated
  /\ nref = 2 * size /\ Cardinality(Labelled) = 2 * size

\* Process r has loaded the model of iteration k and holds it.
HoldsModel(r, k) == calc_amp[r].version = k /\ calc_amp[r].label = AmpLabel

\* C19: while the coordinator trains (and overwrites the file of the
\* model) no load of the file is pending; the training of iteration k+1
\* begins only after every process has loaded the model of iteration k;
\* and while a load of iteration k is pending the file holds the model
\* trained in iteration k on the training set of iteration k, so that is
\* what the load reads.
C19_NoOverwriteWhileLoading ==
  /\ pc[0] = "train" =>
       /\ \A r \in Ranks : pc[r] # "load"
       /\ \A r \in Ranks :
            /\ iteration[r] \in {iteration[0] - 1, iteration[0]}
            /\ iteration[r] = iteration[0] => pc[r] = "train"
            /\ iteration[0] >= 2 => HoldsModel(r, iteration[0] - 1)
  /\ \A r \in Ranks :
       pc[r] = "load" =>
         /\ amp_files[label[r]].version = iteration[r]
         /\ amp_files[label[r]] = trace[iteration[r]].model
         /\ amp_files[label[r]].trainedOn = trace[iteration[r]].train_before
         /\ ntrain = iteration[r]

C19_Witness ==
  /\ size >= 2 /\ pc[0] = "train" /\ iteration[0] = 2
  /\ pc[1] = "validate" /\ iteration[1] = 1 /\ HoldsModel(1, 1)
  /\ amp_files[AmpLabel].version = 1

\* The iteration in which the coordinator converged.
ConvergedIn(k) == is_converged[0] /\ iteration[0] = k

\* C20: when the run converges in iteration k, the final path written is
\* the initial image, the images labelled in the validation of iteration k
\* and the final image; its interior image at index r + 1 is the labelled
\* copy of the image rank r handed to the gather of iteration k (the image
\* rank r relaxed at index r + 1 under the model of iteration k), not an
\* image of an earlier iteration.
C20_FinalPathFromLastGather ==
  \A w \in 1..Len(mep_traj) : \A k \in 1..Len(trace) :
    ConvergedIn(k) =>
      /\ mep_traj[w] = <<InitialFile>> \o trace[k].refs \o <<FinalFile>>
      /\ Len(trace[k].refs) = size
      /\ \A r \in Ranks :
           /\ At(mep_traj[w], r + 1).geo = trace[k].gathered[r + 1].geo
           /\ At(mep_traj[w], r + 1).geo = Geo("relaxed", r + 1, k)
           /\ At(mep_traj[w], r + 1).calc.kind = "ref"
           /\ \A j \in 1..(k - 1) : \A i \in 1..Len(trace[j].refs) :
                At(mep_traj[w], r + 1) # trace[j].refs[i]

C20_Witness ==
  /\ size >= 2 /\ ConvergedIn(2) /\ Len(mep_traj) = 1
  /\ At(mep_traj[1], 2).geo = Geo("relaxed", 2, 2)

====
